---------------------------- MODULE Spec2Model ----------------------------
(***************************************************************************)
(* A model of FIM.py: the polling file-integrity monitor (monitor_files,   *)
(* its per-category handlers, the baseline ledger baseline.txt) and the    *)
(* backup rotation (backup_and_manage, delete_old_backups, the scheduler   *)
(* threads).                                                               *)
(*                                                                         *)
(* Spec is the menu with the monitor loop, SpecBackup and SpecBackupAny    *)
(* the scheduler threads, SpecPrune one call of delete_old_backups,        *)
(* SpecSave one save of baseline.txt beside another reader, SpecLoad one   *)
(* load of it, SpecCollect collect_baseline and SpecClassify               *)
(* check_file_type, each on inputs drawn from bounded sets.                *)
(*                                                                         *)
(* A Python string is modelled as a sequence of tokens.  A path is         *)
(* <<directory, name characters ..., suffix>>, a digest and an event id    *)
(* are one-token strings, and "|" and "\n" are tokens of their own, so     *)
(* that writing and parsing a ledger line are real conversions.            *)
(***************************************************************************)
EXTENDS Integers, Sequences, FiniteSets, TLC

\* ------------------------------------------------------------------ bounds
\* file contents are 1..MaxContent (0 = the file is not on disk)
MaxContent == 2
\* number of external inputs: file-system changes made by other processes
\* and rebuilds of the baseline asked for at the menu
MaxInputs == 2
\* number of scan cycles of monitor_files that are explored
MaxCycles == 2

\* --------------------------------------------------------- the file system
\* The directories: full name, parent, base name.  A is the target folder
\* with its subdirectories; B/A is a directory of another place that has the
\* same base name.
DirTree ==
    << [full |-> "A",             parent |-> "",  name |-> "A"],
       [full |-> "A/sub",         parent |-> "A", name |-> "sub"],
       [full |-> "A/image files", parent |-> "A", name |-> "image files"],
       [full |-> "B/A",           parent |-> "",  name |-> "A"] >>

\* The files that may exist, in directory-listing order.
FileTable ==
    << <<"A", "a", ".pdf">>,
       <<"A/sub", "$", "b", ".xlsx">>,
       <<"A/image files", "c", ".png">> >>

target_folders == << "A" >>

excluded_dirs == {"image files"}

Paths == {FileTable[i] : i \in DOMAIN FileTable}

DirNames == {DirTree[i].full : i \in DOMAIN DirTree}

DirOf(path) == path[1]

\* os.path.join(root, f) = path; f is the part after the directory
BaseName(path) == SubSeq(path, 2, Len(path))

\* str.startswith / str.endswith on token strings
StartsWith(s, prefix) ==
    /\ Len(s) >= Len(prefix)
    /\ SubSeq(s, 1, Len(prefix)) = prefix

EndsWith(s, suffix) ==
    /\ Len(s) >= 1
    /\ s[Len(s)] = suffix

\* d is dir itself or lies below it
RECURSIVE Under(_, _)
Under(d, top) ==
    IF d = top THEN TRUE
    ELSE \E i \in DOMAIN DirTree :
            /\ DirTree[i].full = d
            /\ DirTree[i].parent # ""
            /\ Under(DirTree[i].parent, top)

VARIABLES
    disk,            \* path -> content (0: absent)
    locked,          \* path -> another process holds the file exclusively
    dirsOnDisk,      \* the directories that exist
    baseline_txt,    \* the ledger file: [exists, lines]
    file_info_dict,  \* monitor_files' in-memory baseline (an ordered dict)
    pc,              \* where the program is: menu, load, sleep, walk, ...
    ti,              \* index into target_folders of the running walk
    todo,            \* os.walk: directories still to be listed
    files,           \* the files of the current directory still to visit
    log,             \* the event log: records [code, path, id, cycle]
    skipped,         \* the "is in use, skipping..." lines printed: <<path, cycle>>
    uuid,            \* number of uuid4 values generated so far
    cycle,           \* number of scan cycles started
    inputs,          \* number of external inputs so far
    touched,         \* paths changed by other processes since the cycle began
    startDict,       \* file_info_dict when the current cycle began
    startDisk,       \* disk when the current cycle began
    startLocked      \* locked when the current cycle began

mvars == << disk, locked, dirsOnDisk, baseline_txt, file_info_dict, pc, ti,
            todo, files, log, skipped, uuid, cycle, inputs, touched, startDict,
            startDisk, startLocked >>

VARIABLES
    archives,        \* the entries of backup_location: [name, ctime, folders]
    now,             \* the clock, in seconds
    ticks,           \* number of clock advances so far
    created,         \* number of directories created in backup_location
    job,             \* the scheduled job: [registered, next_run]
    tpc,             \* thread -> where it is
    tret,            \* thread -> where backup_and_manage returns to
    tts,             \* thread -> the timestamp its backup_and_manage computed
    tidx,            \* thread -> index of the target folder being copied
    started,         \* number of calls of backup_and_manage
    completed,       \* number of "Backup completed successfully." lines
    errors,          \* number of exceptions logged by backup_and_manage
    overlapped,      \* two calls of backup_and_manage have run at once
    before           \* the entries a lone call of delete_old_backups began with

bvars == << archives, now, ticks, created, job, tpc, tret, tts, tidx, started,
            completed, errors, overlapped, before >>

VARIABLES
    folder_list,     \* the list of target folders the functions are called with
    skips,           \* number of calls of backup_and_manage that found their
                     \* archive name taken and took the else branch
    baseline_data,   \* the dict a writer of baseline.txt is saving
    unwritten,       \* the lines written to the file object and not yet flushed
    spc,             \* where the writer of baseline.txt is
    mode,            \* the mode the writer opens baseline.txt with: "w" or "a"
    oldTxt,          \* baseline.txt before the writer began
    readerSaw,       \* baseline.txt as another reader found it
    readAt,          \* where the writer was when that reader read
    checked_name,    \* the file name check_file_type is called with
    checked_type     \* what check_file_type returned for it

svars == << baseline_data, unwritten, spc, mode, oldTxt, readerSaw, readAt >>

kvars == << checked_name, checked_type >>

cvars == << folder_list, skips, svars, kvars >>

\* os.path.exists(path)
Exists(path) == path \in DOMAIN disk /\ disk[path] # 0

\* open(path, "rb") succeeds: the file is there and no other process holds it
Readable(path) == Exists(path) /\ ~locked[path]

\* -------------------------------------------------------------- fingerprints
\* hashlib.sha512(data).hexdigest()
calculate_file_hash(path) == << "sha512:" \o ToString(disk[path]) >>

\* hashlib.sha256(data).hexdigest()
calculate_file_checksum(path) == << "sha256:" \o ToString(disk[path]) >>

\* str(uuid.uuid4()): the n-th identifier generated
Uuid4(n) == << "uuid-" \o ToString(n) >>

\* ------------------------------------------------------------- Python dicts
\* A dict is a sequence of entries [key, hash, event_id, path] in insertion
\* order.
DictKeys(d) == {d[i].key : i \in DOMAIN d}

DictGet(d, k) == d[CHOOSE i \in DOMAIN d : d[i].key = k]

\* d[k] = v: an existing key keeps its place
DictSet(d, k, v) ==
    IF k \in DictKeys(d)
    THEN [i \in DOMAIN d |-> IF d[i].key = k THEN v ELSE d[i]]
    ELSE Append(d, v)

\* del d[k]
DictDel(d, k) == SelectSeq(d, LAMBDA e : e.key # k)

\* Entry with the file name stored where the full path belongs
Entry_StoresName(k, h, e) ==
    [key |-> k, hash |-> h, event_id |-> e, path |-> BaseName(k)]

Entry(k, h, e) == [key |-> k, hash |-> h, event_id |-> e, path |-> k]

\* --------------------------------------------------------- the ledger format
Sep == "|"

Whitespace == {" ", "\n"}

\* f"{path}|{hash}|{event_id}\n"
FormatLine(path, hash, event_id) ==
    path \o <<Sep>> \o hash \o <<Sep>> \o event_id \o <<"\n">>

\* str.strip()
RECURSIVE Strip(_)
Strip(s) ==
    IF s = <<>> THEN s
    ELSE IF Head(s) \in Whitespace THEN Strip(Tail(s))
    ELSE IF s[Len(s)] \in Whitespace THEN Strip(SubSeq(s, 1, Len(s) - 1))
    ELSE s

\* str.split("|"): the parts between the separators
RECURSIVE Split(_)
Split(s) ==
    IF \A i \in DOMAIN s : s[i] # Sep THEN << s >>
    ELSE LET i == CHOOSE j \in DOMAIN s :
                    /\ s[j] = Sep
                    /\ \A k \in 1..(j - 1) : s[k] # Sep
         IN  << SubSeq(s, 1, i - 1) >> \o Split(SubSeq(s, i + 1, Len(s)))

\* LoadLines giving up at the first line with fewer than three parts
RECURSIVE LoadLines_StopsAtShort(_, _)
LoadLines_StopsAtShort(lines, d) ==
    IF lines = <<>> THEN d
    ELSE LET parts == Split(Strip(Head(lines)))
         IN  IF Len(parts) >= 3
             THEN LoadLines_StopsAtShort(Tail(lines),
                      DictSet(d, parts[1],
                              [key |-> parts[1], hash |-> parts[2],
                               event_id |-> parts[3], path |-> parts[1]]))
             ELSE d

\* The loop that reads baseline.txt into a dict: a line with at least three
\* parts sets dict[parts[0]]; other lines are passed over.
RECURSIVE LoadLines(_, _)
LoadLines(lines, d) ==
    IF lines = <<>> THEN d
    ELSE LET parts == Split(Strip(Head(lines)))
         IN  LoadLines(Tail(lines),
                 IF Len(parts) >= 3
                 THEN DictSet(d, parts[1],
                              [key |-> parts[1], hash |-> parts[2],
                               event_id |-> parts[3], path |-> parts[1]])
                 ELSE d)

\* for path, info in d.items(): f.write(...)
SaveLines(d) == [i \in DOMAIN d |-> FormatLine(d[i].key, d[i].hash, d[i].event_id)]

NoFile == [exists |-> FALSE, lines |-> <<>>]


\* ------------------------------------------------------ category handlers
\* The value of the name event_id after the loop that loads the ledger: the
\* handlers that assign parts[2] to event_id inside the loop overwrite the
\* argument with the event id of the last line accepted.
RECURSIVE LoopEventId(_, _)
LoopEventId(lines, event_id) ==
    IF lines = <<>> THEN event_id
    ELSE LET parts == Split(Strip(Head(lines)))
         IN  LoopEventId(Tail(lines),
                         IF Len(parts) >= 3 THEN parts[3] ELSE event_id)

\* What a handler leaves behind: the ledger and the codes it logged.
Outcome(txt, codes) == [txt |-> txt, codes |-> codes]

\* The body shared by process_file_changes, process_image_changes,
\* process_pdf_changes and process_text_changes (they differ in log wording).
\* A missing baseline.txt raises inside the try: an error is logged, no event.
HashHandler(filename, event_id) ==
    IF ~baseline_txt.exists THEN Outcome(baseline_txt, <<>>)
    ELSE LET data == LoadLines(baseline_txt.lines, <<>>)
             eid == LoopEventId(baseline_txt.lines, event_id)
             current_hash == calculate_file_hash(filename)
             code == IF filename \notin DictKeys(data) THEN 101
                     ELSE IF current_hash # DictGet(data, filename).hash THEN 103
                     ELSE 100
             saved == DictSet(data, filename, Entry(filename, current_hash, eid))
         IN  Outcome([exists |-> TRUE, lines |-> SaveLines(saved)], <<code>>)

process_file_changes(filename, event_id) == HashHandler(filename, event_id)

process_image_changes(filename, event_id) == HashHandler(filename, event_id)

process_pdf_changes(filename, event_id) == HashHandler(filename, event_id)

process_text_changes(filename, event_id) == HashHandler(filename, event_id)

process_excel_changes(filename, event_id) ==
    IF ~baseline_txt.exists THEN Outcome(baseline_txt, <<>>)
    ELSE LET data == LoadLines(baseline_txt.lines, <<>>)
             eid == LoopEventId(baseline_txt.lines, event_id)
             current_checksum == calculate_file_checksum(filename)
             code == IF filename \notin DictKeys(data) THEN 101
                     ELSE IF current_checksum # DictGet(data, filename).hash THEN 103
                     ELSE 100
             saved == DictSet(data, filename,
                              Entry(filename, current_checksum, eid))
         IN  Outcome([exists |-> TRUE, lines |-> SaveLines(saved)], <<code>>)

process_word_changes(filename, event_id) ==
    IF StartsWith(filename, <<"~", "$">>) THEN Outcome(baseline_txt, <<>>)
    ELSE IF ~baseline_txt.exists THEN Outcome(baseline_txt, <<>>)
    ELSE LET data == LoadLines(baseline_txt.lines, <<>>)
         IN  IF ~Exists(filename)
             THEN Outcome(baseline_txt,
                          IF filename \in DictKeys(data) THEN <<102>> ELSE <<>>)
             ELSE LET current_hash == calculate_file_hash(filename)
                      code == IF filename \notin DictKeys(data) THEN 101
                              ELSE IF current_hash # DictGet(data, filename).hash
                                   THEN 103
                              ELSE 100
                      saved == DictSet(data, filename,
                                       Entry(filename, current_hash, event_id))
                  IN  Outcome([exists |-> TRUE, lines |-> SaveLines(saved)],
                              <<code>>)

\* str.endswith is case-sensitive; "none" stands for None
check_file_type(filename) ==
    IF EndsWith(filename, ".xlsx") THEN "excel"
    ELSE IF \E sfx \in {".jpg", ".jpeg", ".png", ".gif"} : EndsWith(filename, sfx)
         THEN "image"
    ELSE IF EndsWith(filename, ".docx") THEN "word"
    ELSE IF EndsWith(filename, ".pdf") THEN "pdf"
    ELSE IF EndsWith(filename, ".pptx") THEN "pptx"
    ELSE "none"

process_file(filename, event_id) ==
    LET file_type == check_file_type(filename)
    IN  IF file_type = "excel" THEN process_excel_changes(filename, event_id)
        ELSE IF file_type = "image" THEN process_image_changes(filename, event_id)
        ELSE IF file_type = "word" THEN process_word_changes(filename, event_id)
        ELSE IF file_type = "pdf" THEN process_pdf_changes(filename, event_id)
        ELSE IF file_type = "txt" THEN process_text_changes(filename, event_id)
        ELSE Outcome(baseline_txt, <<103>>)

\* ------------------------------------------------------------ the event log
Event(code, path, id) == [code |-> code, path |-> path, id |-> id, cycle |-> cycle]

Events(codes, path, id) == [i \in DOMAIN codes |-> Event(codes[i], path, id)]

\* -------------------------------------------------------- collect_baseline
\* The files os.walk(target_folder) yields, in walk order (FileTable lists the
\* files in that order); collect_baseline prunes no directory.
WalkFiles(target_folder) ==
    SelectSeq(FileTable,
              LAMBDA p : /\ Under(DirOf(p), target_folder)
                         /\ DirOf(p) \in dirsOnDisk
                         /\ Exists(p))

\* names beginning with '$' or '~$' are skipped
Skipped(path) ==
    \/ StartsWith(BaseName(path), <<"$">>)
    \/ StartsWith(BaseName(path), <<"~", "$">>)

\* One target folder of collect_baseline: its records are appended to the
\* ledger, each with a fresh uuid.  ok is FALSE when calculate_file_hash
\* raises (the file is held by another process), which ends the program.
CollectFolder(target_folder, txt, n) ==
    LET kept == SelectSeq(WalkFiles(target_folder), LAMBDA p : ~Skipped(p))
        recs == [i \in DOMAIN kept |->
                    Entry(kept[i], calculate_file_hash(kept[i]), Uuid4(n + i))]
    IN  IF \E i \in DOMAIN kept : locked[kept[i]]
        THEN [txt |-> txt, n |-> n, ok |-> FALSE]
        ELSE [txt |-> [exists |-> TRUE, lines |-> txt.lines \o SaveLines(recs)],
              n |-> n + Len(kept), ok |-> TRUE]

RECURSIVE CollectFolders(_, _, _)
CollectFolders(folders, txt, n) ==
    IF folders = <<>> THEN [txt |-> txt, n |-> n, ok |-> TRUE]
    ELSE LET r == CollectFolder(Head(folders), txt, n)
         IN  IF r.ok THEN CollectFolders(Tail(folders), r.txt, r.n) ELSE r

\* erase_existing_baseline, then one append per target folder
collect_baseline(folders, n) == CollectFolders(folders, NoFile, n)

vars == << mvars, bvars, cvars >>

\* ---------------------------------------------------------------- start-up
MonitorInit ==
    /\ disk \in [Paths -> 0..1]
    /\ locked = [p \in Paths |-> FALSE]
    /\ dirsOnDisk = DirNames
    /\ baseline_txt = NoFile
    /\ file_info_dict = <<>>
    /\ pc = "menu"
    /\ ti = 0
    /\ todo = <<>>
    /\ files = <<>>
    /\ log = <<>>
    /\ skipped = {}
    /\ uuid = 0
    /\ cycle = 0
    /\ inputs = 0
    /\ touched = {}
    /\ startDict = <<>>
    /\ startDisk = disk
    /\ startLocked = locked

Threads == {"main", "backup"}

\* the threads of the backup side before the program has reached them
ThreadsOff ==
    /\ now = 0
    /\ ticks = 0
    /\ created = 0
    /\ job = [registered |-> FALSE, next_run |-> 0]
    /\ tpc = [t \in Threads |-> "off"]
    /\ tret = [t \in Threads |-> "off"]
    /\ tts = [t \in Threads |-> 0]
    /\ tidx = [t \in Threads |-> 0]
    /\ started = 0
    /\ completed = 0
    /\ errors = 0
    /\ overlapped = FALSE
    /\ before = [called |-> FALSE, archives |-> {}]

BackupOff == archives = {} /\ ThreadsOff

\* no writer of baseline.txt other than the program's own atomic steps
SaveOff ==
    /\ baseline_data = <<>>
    /\ unwritten = <<>>
    /\ spc = "off"
    /\ mode = "w"
    /\ oldTxt = NoFile
    /\ readerSaw = NoFile
    /\ readAt = "off"

ClassifyOff ==
    /\ checked_name = <<>>
    /\ checked_type = "unset"

\* the program as __main__ runs it: the functions get target_folders
CallsOff ==
    /\ folder_list = target_folders
    /\ skips = 0
    /\ SaveOff
    /\ ClassifyOff

Init == MonitorInit /\ BackupOff /\ CallsOff

\* ------------------------------------------------ other processes (inputs)
Running == pc \notin {"crashed", "exit"}

OtherProcess(changed) ==
    /\ Running
    /\ inputs < MaxInputs
    /\ inputs' = inputs + 1
    /\ touched' = touched \cup changed
    /\ UNCHANGED << baseline_txt, file_info_dict, pc, ti, todo, files, log, skipped,
                    uuid, cycle, startDict, startDisk, startLocked >>
    /\ UNCHANGED << bvars, cvars >>

\* a file is created or overwritten
WriteFile(p, c) ==
    /\ DirOf(p) \in dirsOnDisk
    /\ ~locked[p]
    /\ disk[p] # c
    /\ disk' = [disk EXCEPT ![p] = c]
    /\ UNCHANGED << locked, dirsOnDisk >>
    /\ OtherProcess({p})

RemoveFile(p) ==
    /\ Exists(p)
    /\ ~locked[p]
    /\ disk' = [disk EXCEPT ![p] = 0]
    /\ UNCHANGED << locked, dirsOnDisk >>
    /\ OtherProcess({p})

\* another process opens the file exclusively
LockFile(p) ==
    /\ Exists(p)
    /\ ~locked[p]
    /\ locked' = [locked EXCEPT ![p] = TRUE]
    /\ UNCHANGED << disk, dirsOnDisk >>
    /\ OtherProcess({p})

UnlockFile(p) ==
    /\ locked[p]
    /\ locked' = [locked EXCEPT ![p] = FALSE]
    /\ UNCHANGED << disk, dirsOnDisk >>
    /\ OtherProcess({p})

\* a whole directory tree is removed
RemoveTree(d) ==
    /\ d \in dirsOnDisk
    /\ \A p \in Paths : Under(DirOf(p), d) => ~locked[p]
    /\ disk' = [p \in Paths |-> IF Under(DirOf(p), d) THEN 0 ELSE disk[p]]
    /\ dirsOnDisk' = {x \in dirsOnDisk : ~Under(x, d)}
    /\ UNCHANGED locked
    /\ OtherProcess({p \in Paths : Under(DirOf(p), d)})

\* ------------------------------------------------------------------ the menu
\* response "A": collect_baseline(target_folders)
MenuCollect ==
    /\ pc = "menu"
    /\ inputs < MaxInputs
    /\ inputs' = inputs + 1
    /\ LET r == collect_baseline(folder_list, uuid)
       IN  /\ baseline_txt' = r.txt
           /\ uuid' = r.n
           /\ pc' = IF r.ok THEN "menu" ELSE "exit"
    /\ UNCHANGED << disk, locked, dirsOnDisk, file_info_dict, ti, todo, files,
                    log, skipped, cycle, touched, startDict, startDisk, startLocked >>
    /\ UNCHANGED << bvars, cvars >>

\* response "B": the monitor thread is started
MenuMonitor ==
    /\ pc = "menu"
    /\ pc' = "load"
    /\ UNCHANGED << disk, locked, dirsOnDisk, baseline_txt, file_info_dict, ti,
                    todo, files, log, skipped, uuid, cycle, inputs, touched, startDict,
                    startDisk, startLocked >>
    /\ UNCHANGED << bvars, cvars >>

\* ------------------------------------------------------------ monitor_files
\* the ledger is read into file_info_dict; a missing file is reported and the
\* dict stays empty
LoadBaseline ==
    /\ pc = "load"
    /\ file_info_dict' = IF baseline_txt.exists
                         THEN LoadLines(baseline_txt.lines, <<>>)
                         ELSE <<>>
    /\ pc' = "sleep"
    /\ UNCHANGED << disk, locked, dirsOnDisk, baseline_txt, ti, todo, files,
                    log, skipped, uuid, cycle, inputs, touched, startDict, startDisk,
                    startLocked >>
    /\ UNCHANGED << bvars, cvars >>

\* time.sleep(5) returns and the loop over target_folders begins
StartCycle ==
    /\ pc = "sleep"
    /\ cycle < MaxCycles
    /\ cycle' = cycle + 1
    /\ ti' = 1
    /\ todo' = << target_folders[1] >>
    /\ files' = <<>>
    /\ pc' = "walk"
    /\ touched' = {}
    /\ startDict' = file_info_dict
    /\ startDisk' = disk
    /\ startLocked' = locked
    /\ UNCHANGED << disk, locked, dirsOnDisk, baseline_txt, file_info_dict, log, skipped,
                    uuid, inputs >>
    /\ UNCHANGED << bvars, cvars >>

\* the entries os.walk finds in directory d
ListFiles(d) == SelectSeq(FileTable, LAMBDA p : DirOf(p) = d /\ Exists(p))

\* dirs[:] = [d for d in dirs if d not in excluded_dirs]
ListDirs(d) ==
    LET sub == SelectSeq(DirTree,
                         LAMBDA e : /\ e.parent = d
                                    /\ e.full \in dirsOnDisk
                                    /\ e.name \notin excluded_dirs)
    IN  [i \in DOMAIN sub |-> sub[i].full]

AfterFile(rest) == IF rest = <<>> THEN "delete" ELSE "open"

\* os.walk yields its next directory, or the walk of this target is over
WalkStep ==
    /\ pc = "walk"
    /\ IF todo = <<>>
       THEN IF ti < Len(target_folders)
            THEN /\ ti' = ti + 1
                 /\ todo' = << target_folders[ti + 1] >>
                 /\ UNCHANGED << pc, files >>
            ELSE /\ pc' = "sleep"
                 /\ UNCHANGED << ti, todo, files >>
       ELSE LET d == Head(todo)
            IN  IF d \notin dirsOnDisk
                THEN /\ todo' = Tail(todo)
                     /\ UNCHANGED << pc, ti, files >>
                ELSE /\ todo' = ListDirs(d) \o Tail(todo)
                     /\ files' = ListFiles(d)
                     /\ pc' = AfterFile(ListFiles(d))
                     /\ UNCHANGED ti
    /\ UNCHANGED << disk, locked, dirsOnDisk, baseline_txt, file_info_dict, log, skipped,
                    uuid, cycle, inputs, touched, startDict, startDisk,
                    startLocked >>
    /\ UNCHANGED << bvars, cvars >>

\* OpenFile without the except PermissionError clause: the lock ends the loop
OpenFile_LockUncaught ==
    /\ pc = "open"
    /\ pc' = IF Readable(Head(files)) THEN "hash" ELSE "crashed"
    /\ UNCHANGED << disk, locked, dirsOnDisk, baseline_txt, file_info_dict, ti,
                    todo, files, log, skipped, uuid, cycle, inputs, touched,
                    startDict, startDisk, startLocked >>
    /\ UNCHANGED << bvars, cvars >>

\* with open(full_path, "rb"): only PermissionError is caught
OpenFile ==
    /\ pc = "open"
    /\ LET full_path == Head(files)
       IN  IF ~Exists(full_path)
           THEN /\ pc' = "crashed"
                /\ UNCHANGED << files, skipped >>
           ELSE IF locked[full_path]
           THEN /\ skipped' = skipped \cup {<< full_path, cycle >>}
                /\ files' = Tail(files)
                /\ pc' = AfterFile(Tail(files))
           ELSE /\ pc' = "hash"
                /\ UNCHANGED << files, skipped >>
    /\ UNCHANGED << disk, locked, dirsOnDisk, baseline_txt, file_info_dict, ti,
                    todo, log, uuid, cycle, inputs, touched, startDict,
                    startDisk, startLocked >>
    /\ UNCHANGED << bvars, cvars >>

\* NewFile with the insertion into file_info_dict left out
NewFile_ForgetsRecord(full_path) ==
    /\ uuid' = uuid + 1
    /\ log' = Append(log, Event(101, full_path, Uuid4(uuid + 1)))
    /\ UNCHANGED << file_info_dict, baseline_txt >>

\* full_path is not in the baseline
NewFile(full_path) ==
    LET event_id == Uuid4(uuid + 1)
        file_hash == calculate_file_hash(full_path)
    IN  /\ uuid' = uuid + 1
        /\ file_info_dict' = DictSet(file_info_dict, full_path,
                                     Entry(full_path, file_hash, event_id))
        /\ log' = Append(log, Event(101, full_path, event_id))
        /\ UNCHANGED baseline_txt

\* the fingerprint differs from the stored one
ModifiedFile(full_path) ==
    LET event_id == Uuid4(uuid + 1)
        current_hash == calculate_file_hash(full_path)
        old == DictGet(file_info_dict, full_path)
        r == process_file(full_path, event_id)
    IN  /\ uuid' = uuid + 1
        /\ file_info_dict' =
               DictSet(file_info_dict, full_path,
                       [old EXCEPT !.hash = current_hash, !.event_id = event_id])
        /\ baseline_txt' = r.txt
        /\ log' = log \o Events(r.codes, full_path, event_id)

\* full_path != file_info_dict[full_path]["path"]
RenamedFile(full_path) ==
    LET old == DictGet(file_info_dict, full_path)
        popped == DictGet(file_info_dict, old.path)
    IN  /\ log' = Append(log, Event(104, old.path, <<>>))
        /\ file_info_dict' =
               DictSet(DictDel(file_info_dict, old.path), full_path,
                       [popped EXCEPT !.key = full_path, !.path = full_path])
        /\ UNCHANGED << baseline_txt, uuid >>

\* HashDiffers with the comparison left out: every known file counts as changed
HashDiffers_Always(full_path) == full_path \in DictKeys(file_info_dict)

\* current_hash != file_info_dict[full_path]["hash"]
HashDiffers(full_path) ==
    calculate_file_hash(full_path) # DictGet(file_info_dict, full_path).hash

\* the file is hashed and classified as new, modified, renamed or unchanged
HashFile ==
    /\ pc = "hash"
    /\ LET full_path == Head(files)
       IN  IF ~Readable(full_path)
           THEN /\ pc' = "crashed"
                /\ UNCHANGED << files, file_info_dict, baseline_txt, log, uuid >>
           ELSE /\ files' = Tail(files)
                /\ pc' = AfterFile(Tail(files))
                /\ IF full_path \notin DictKeys(file_info_dict)
                   THEN NewFile(full_path)
                   ELSE IF HashDiffers(full_path)
                   THEN ModifiedFile(full_path)
                   ELSE IF full_path # DictGet(file_info_dict, full_path).path
                   THEN RenamedFile(full_path)
                   ELSE UNCHANGED << file_info_dict, baseline_txt, log, uuid >>
    /\ UNCHANGED << disk, locked, dirsOnDisk, ti, todo, cycle, skipped, inputs, touched,
                    startDict, startDisk, startLocked >>
    /\ UNCHANGED << bvars, cvars >>

\* for path in list(file_info_dict.keys()): the paths no longer on disk
DeletePass ==
    /\ pc = "delete"
    /\ LET gone == SelectSeq(file_info_dict, LAMBDA e : ~Exists(e.key))
       IN  /\ log' = log \o [i \in DOMAIN gone |-> Event(102, gone[i].key, <<>>)]
           /\ file_info_dict' = SelectSeq(file_info_dict, LAMBDA e : Exists(e.key))
    /\ pc' = "walk"
    /\ UNCHANGED << disk, locked, dirsOnDisk, baseline_txt, ti, todo, files,
                    uuid, cycle, skipped, inputs, touched, startDict, startDisk,
                    startLocked >>
    /\ UNCHANGED << bvars, cvars >>

Next ==
    \/ \E p \in Paths, c \in 1..MaxContent : WriteFile(p, c)
    \/ \E p \in Paths : RemoveFile(p)
    \/ \E p \in Paths : LockFile(p)
    \/ \E p \in Paths : UnlockFile(p)
    \/ RemoveTree(target_folders[1])
    \/ MenuCollect
    \/ MenuMonitor
    \/ LoadBaseline
    \/ StartCycle
    \/ WalkStep
    \/ OpenFile
    \/ HashFile
    \/ DeletePass

Spec == Init /\ [][Next]_vars

\* =========================================================== backup rotation
\* every(1).minutes, in seconds of the clock
JobInterval == 60

\* number of clock advances that are explored
MaxTicks == 3

\* number of entries the backup location may hold when delete_old_backups is
\* applied to it on its own
MaxArchives == 6

Archive(name, ctime) == [name |-> name, ctime |-> ctime, folders |-> <<>>]

\* os.path.exists(backup_folder)
ArchiveExists(name) == \E a \in archives : a.name = name

\* backups.sort(key=os.path.getctime); backups[0]
Oldest(backups) == CHOOSE a \in backups : \A b \in backups : a.ctime <= b.ctime

\* delete_old_backups removing the newest entry instead of the oldest
delete_old_backups_Newest(backups) ==
    IF Cardinality(backups) > 2
    THEN backups \ {CHOOSE a \in backups : \A b \in backups : a.ctime >= b.ctime}
    ELSE backups

\* what is left of the backup location: the oldest entry is removed when
\* there are more than 2
delete_old_backups(backups) ==
    IF Cardinality(backups) > 2 THEN backups \ {Oldest(backups)} ELSE backups

\* the monitor side while only the backup side is looked at
MonitorOff ==
    /\ disk = [p \in Paths |-> 1]
    /\ locked = [p \in Paths |-> FALSE]
    /\ dirsOnDisk = DirNames
    /\ baseline_txt = NoFile
    /\ file_info_dict = <<>>
    /\ pc = "monitoring"
    /\ ti = 0
    /\ todo = <<>>
    /\ files = <<>>
    /\ log = <<>>
    /\ skipped = {}
    /\ uuid = 0
    /\ cycle = 0
    /\ inputs = 0
    /\ touched = {}
    /\ startDict = <<>>
    /\ startDisk = disk
    /\ startLocked = locked

\* response "B" has been given: the main thread is about to call
\* backup_and_manage; the backup thread is not started yet
BackupInit ==
    /\ archives = {}
    /\ now = 0
    /\ ticks = 0
    /\ created = 0
    /\ job = [registered |-> FALSE, next_run |-> 0]
    /\ tpc = [t \in Threads |-> IF t = "main" THEN "call" ELSE "off"]
    /\ tret = [t \in Threads |-> IF t = "main" THEN "spawn" ELSE "off"]
    /\ tts = [t \in Threads |-> 0]
    /\ tidx = [t \in Threads |-> 0]
    /\ started = 0
    /\ completed = 0
    /\ errors = 0
    /\ overlapped = FALSE
    /\ before = [called |-> FALSE, archives |-> {}]

InitBackup == MonitorOff /\ BackupInit /\ CallsOff

\* a thread is inside backup_and_manage
InBackup(t) == tpc[t] \in {"call", "mkdir", "copy", "prune"}

\* the clock advances by a second or by the job's interval
Tick(d) ==
    /\ ticks < MaxTicks
    /\ ticks' = ticks + 1
    /\ now' = now + d
    /\ UNCHANGED << archives, created, job, tpc, tret, tts, tidx, started,
                    completed, errors, overlapped, before >>
    /\ UNCHANGED << mvars, cvars >>

\* BmStart with the retention prune invoked when the archive name is taken
BmStart_PrunesWhenTaken(t) ==
    /\ tpc[t] = "call"
    /\ tts' = [tts EXCEPT ![t] = now]
    /\ tpc' = [tpc EXCEPT ![t] = IF ArchiveExists(now) THEN "prune" ELSE "mkdir"]
    /\ skips' = IF ArchiveExists(now) THEN skips + 1 ELSE skips
    /\ started' = started + 1
    /\ overlapped' = (overlapped \/ \E u \in Threads \ {t} : InBackup(u))
    /\ UNCHANGED << archives, now, ticks, created, job, tret, tidx, completed,
                    errors, before >>
    /\ UNCHANGED << mvars, folder_list, svars, kvars >>

\* backup_and_manage: the timestamp is taken and the archive name looked up;
\* an existing name takes the empty else branch
BmStart(t) ==
    /\ tpc[t] = "call"
    /\ tts' = [tts EXCEPT ![t] = now]
    /\ tpc' = [tpc EXCEPT ![t] = IF ArchiveExists(now) THEN tret[t] ELSE "mkdir"]
    /\ skips' = IF ArchiveExists(now) THEN skips + 1 ELSE skips
    /\ started' = started + 1
    /\ overlapped' = (overlapped \/ \E u \in Threads \ {t} : InBackup(u))
    /\ UNCHANGED << archives, now, ticks, created, job, tret, tidx, completed,
                    errors, before >>
    /\ UNCHANGED << mvars, folder_list, svars, kvars >>

\* os.makedirs(backup_folder); FileExistsError is passed over in silence
BmMkdir(t) ==
    /\ tpc[t] = "mkdir"
    /\ IF ArchiveExists(tts[t])
       THEN /\ tpc' = [tpc EXCEPT ![t] = tret[t]]
            /\ UNCHANGED << archives, created, tidx >>
       ELSE /\ archives' = archives \cup {Archive(tts[t], created + 1)}
            /\ created' = created + 1
            /\ tidx' = [tidx EXCEPT ![t] = 1]
            /\ tpc' = [tpc EXCEPT ![t] = "copy"]
    /\ UNCHANGED << now, ticks, job, tret, tts, started, completed, errors,
                    overlapped, before >>
    /\ UNCHANGED << mvars, cvars >>

\* os.path.basename(folder)
FolderName(folder) ==
    LET e == CHOOSE x \in {DirTree[i] : i \in DOMAIN DirTree} : x.full = folder
    IN  e.name

\* the archive after shutil.copytree(folder, destination) has copied one more
\* target folder into it
Copied(a, folder) == [a EXCEPT !.folders = Append(a.folders, FolderName(folder))]

\* one turn of the loop over target_folders: the folder is copied, or the
\* loop is over and "Backup completed successfully." is printed.  copytree
\* makes the missing directories of its destination, so an archive removed
\* in the meantime comes back with this folder alone; a destination that is
\* already there raises FileExistsError, which is passed over in silence.
BmCopy(t) ==
    /\ tpc[t] = "copy"
    /\ IF tidx[t] > Len(folder_list)
       THEN /\ tpc' = [tpc EXCEPT ![t] = "prune"]
            /\ completed' = completed + 1
            /\ UNCHANGED << archives, created, tidx >>
       ELSE LET folder == folder_list[tidx[t]]
            IN  IF ArchiveExists(tts[t])
                THEN LET a == CHOOSE x \in archives : x.name = tts[t]
                     IN  IF \E i \in DOMAIN a.folders :
                                a.folders[i] = FolderName(folder)
                         THEN /\ tpc' = [tpc EXCEPT ![t] = tret[t]]
                              /\ UNCHANGED << archives, created, tidx,
                                              completed >>
                         ELSE /\ archives' =
                                     (archives \ {a}) \cup {Copied(a, folder)}
                              /\ tidx' = [tidx EXCEPT ![t] = tidx[t] + 1]
                              /\ UNCHANGED << created, tpc, completed >>
                ELSE /\ archives' = archives \cup
                            {Copied(Archive(tts[t], created + 1), folder)}
                     /\ created' = created + 1
                     /\ tidx' = [tidx EXCEPT ![t] = tidx[t] + 1]
                     /\ UNCHANGED << tpc, completed >>
    /\ UNCHANGED << now, ticks, job, tret, tts, started, errors, overlapped,
                    before >>
    /\ UNCHANGED << mvars, cvars >>

\* shutil.copytree raises (a source that cannot be read, a full disk):
\* logging.exception, the cycle is over, the partial archive stays
BmCopyError(t) ==
    /\ tpc[t] = "copy"
    /\ tidx[t] <= Len(folder_list)
    /\ errors' = errors + 1
    /\ tpc' = [tpc EXCEPT ![t] = tret[t]]
    /\ UNCHANGED << archives, now, ticks, created, job, tret, tts, tidx,
                    started, completed, overlapped, before >>
    /\ UNCHANGED << mvars, cvars >>

\* delete_old_backups(backup_location), then backup_and_manage returns
BmPrune(t) ==
    /\ tpc[t] = "prune"
    /\ archives' = delete_old_backups(archives)
    /\ tpc' = [tpc EXCEPT ![t] = tret[t]]
    /\ UNCHANGED << now, ticks, created, job, tret, tts, tidx, started,
                    completed, errors, overlapped, before >>
    /\ UNCHANGED << mvars, cvars >>

\* the main thread starts the monitor thread and the backup thread and
\* enters its own schedule.run_pending loop
StartThreads ==
    /\ tpc["main"] = "spawn"
    /\ tpc' = [tpc EXCEPT !["main"] = "pending", !["backup"] = "register"]
    /\ UNCHANGED << archives, now, ticks, created, job, tret, tts, tidx,
                    started, completed, errors, overlapped, before >>
    /\ UNCHANGED << mvars, cvars >>

\* schedule_backup: schedule.every(1).minutes.do(backup_and_manage, ...)
RegisterJob ==
    /\ tpc["backup"] = "register"
    /\ job' = [registered |-> TRUE, next_run |-> now + JobInterval]
    /\ tpc' = [tpc EXCEPT !["backup"] = "pending"]
    /\ UNCHANGED << archives, now, ticks, created, tret, tts, tidx, started,
                    completed, errors, overlapped, before >>
    /\ UNCHANGED << mvars, cvars >>

\* schedule.run_pending() in thread t finds the job due (now >= next_run)
\* and runs it; next_run moves only after the job function has returned
RunPending(t) ==
    /\ tpc[t] = "pending"
    /\ job.registered
    /\ now >= job.next_run
    /\ tpc' = [tpc EXCEPT ![t] = "call"]
    /\ tret' = [tret EXCEPT ![t] = "ran"]
    /\ UNCHANGED << archives, now, ticks, created, job, tts, tidx, started,
                    completed, errors, overlapped, before >>
    /\ UNCHANGED << mvars, cvars >>

\* the job function has returned: the job is scheduled again
JobRan(t) ==
    /\ tpc[t] = "ran"
    /\ job' = [job EXCEPT !.next_run = now + JobInterval]
    /\ tpc' = [tpc EXCEPT ![t] = "pending"]
    /\ UNCHANGED << archives, now, ticks, created, tret, tts, tidx, started,
                    completed, errors, overlapped, before >>
    /\ UNCHANGED << mvars, cvars >>

NextBackup ==
    \/ \E d \in {1, JobInterval} : Tick(d)
    \/ \E t \in Threads : BmStart(t)
    \/ \E t \in Threads : BmMkdir(t)
    \/ \E t \in Threads : BmCopy(t)
    \/ \E t \in Threads : BmCopyError(t)
    \/ \E t \in Threads : BmPrune(t)
    \/ StartThreads
    \/ RegisterJob
    \/ \E t \in Threads : RunPending(t)
    \/ \E t \in Threads : JobRan(t)

SpecBackup == InitBackup /\ [][NextBackup]_vars

\* ---------------------------------- backup_and_manage with other folder lists
\* the lists of target folders backup_and_manage is looked at with: the one
\* of __main__, and one whose two folders have the same base name
BackupFolderLists == { target_folders, << "A", "B/A" >> }

InitBackupAny ==
    /\ MonitorOff
    /\ BackupInit
    /\ folder_list \in BackupFolderLists
    /\ skips = 0
    /\ SaveOff
    /\ ClassifyOff

SpecBackupAny == InitBackupAny /\ [][NextBackup]_vars

\* ------------------------------------------- delete_old_backups on its own
\* a backup location holding any of MaxArchives entries, created in the
\* order of their names
InitPrune ==
    /\ MonitorOff
    /\ ThreadsOff
    /\ CallsOff
    /\ archives \in {{Archive(i, i) : i \in S} : S \in SUBSET (1..MaxArchives)}

\* one call of delete_old_backups(backup_location)
Prune ==
    /\ ~before.called
    /\ before' = [called |-> TRUE, archives |-> archives]
    /\ archives' = delete_old_backups(archives)
    /\ UNCHANGED << now, ticks, created, job, tpc, tret, tts, tidx, started,
                    completed, errors, overlapped >>
    /\ UNCHANGED << mvars, cvars >>

NextPrune == Prune

SpecPrune == InitPrune /\ [][NextPrune]_vars

\* ------------------------------------------------- the save of baseline.txt
\* number of records of a dict that is saved
MaxRecords == 2

\* the monitor side at rest, with the given files on disk and ledger
MonitorAt(d, txt, at) ==
    /\ disk = d
    /\ locked = [p \in Paths |-> FALSE]
    /\ dirsOnDisk = DirNames
    /\ baseline_txt = txt
    /\ file_info_dict = <<>>
    /\ pc = at
    /\ ti = 0
    /\ todo = <<>>
    /\ files = <<>>
    /\ log = <<>>
    /\ skipped = {}
    /\ uuid = 0
    /\ cycle = 0
    /\ inputs = 0
    /\ touched = {}
    /\ startDict = <<>>
    /\ startDisk = disk
    /\ startLocked = locked

\* The paths, fingerprints and event ids of the records that are saved: the
\* second path has the character "|" in its file name.
LedgerPaths ==
    { << "A", "a", ".pdf" >>,
      << "A", "x", Sep, "y", ".txt" >>,
      << "A/sub", "$", "b", ".xlsx" >> }

LedgerHashes == { << "sha512:1" >>, << "sha512:2" >> }

LedgerIds == { Uuid4(1) }

LedgerEntries ==
    { Entry(k, h, e) : k \in LedgerPaths, h \in LedgerHashes, e \in LedgerIds }

\* the dicts of at most MaxRecords records (a dict has one entry per key)
LedgerDicts ==
    { d \in UNION { [1..n -> LedgerEntries] : n \in 0..MaxRecords } :
        \A i, j \in DOMAIN d : d[i].key = d[j].key => i = j }

\* what baseline.txt may hold before the save
OldLedgers ==
    { NoFile } \cup
    { [exists |-> TRUE, lines |-> SaveLines(d)] : d \in {x \in LedgerDicts : Len(x) <= 1} }

\* A writer is about to save baseline_data: a handler with mode "w", or
\* collect_baseline with erase_existing_baseline and mode "a".
InitSave ==
    /\ oldTxt \in OldLedgers
    /\ MonitorAt([p \in Paths |-> 1], oldTxt, "monitoring")
    /\ BackupOff
    /\ folder_list = target_folders
    /\ skips = 0
    /\ ClassifyOff
    /\ baseline_data \in LedgerDicts
    /\ mode \in {"w", "a"}
    /\ unwritten = <<>>
    /\ spc = "start"
    /\ readerSaw = NoFile
    /\ readAt = "none"

\* erase_existing_baseline(): os.remove("baseline.txt") if it exists
SaveErase ==
    /\ spc = "start"
    /\ mode = "a"
    /\ baseline_txt' = NoFile
    /\ spc' = "erased"
    /\ UNCHANGED << disk, locked, dirsOnDisk, file_info_dict, pc, ti, todo,
                    files, log, skipped, uuid, cycle, inputs, touched,
                    startDict, startDisk, startLocked >>
    /\ UNCHANGED << baseline_data, unwritten, mode, oldTxt, readerSaw, readAt >>
    /\ UNCHANGED << bvars, folder_list, skips, kvars >>

\* open("baseline.txt", mode): "w" empties the file, "a" keeps what is there;
\* the lines the loop writes go to the file object
SaveOpen ==
    /\ \/ spc = "start" /\ mode = "w"
       \/ spc = "erased" /\ mode = "a"
    /\ baseline_txt' =
           [exists |-> TRUE,
            lines |-> IF mode = "w" THEN <<>> ELSE baseline_txt.lines]
    /\ unwritten' = SaveLines(baseline_data)
    /\ spc' = "writing"
    /\ UNCHANGED << disk, locked, dirsOnDisk, file_info_dict, pc, ti, todo,
                    files, log, skipped, uuid, cycle, inputs, touched,
                    startDict, startDisk, startLocked >>
    /\ UNCHANGED << baseline_data, mode, oldTxt, readerSaw, readAt >>
    /\ UNCHANGED << bvars, folder_list, skips, kvars >>

\* the file object passes its next line on to the file before the close
SaveFlush ==
    /\ spc = "writing"
    /\ unwritten # <<>>
    /\ baseline_txt' =
           [baseline_txt EXCEPT !.lines = Append(@, Head(unwritten))]
    /\ unwritten' = Tail(unwritten)
    /\ UNCHANGED << disk, locked, dirsOnDisk, file_info_dict, pc, ti, todo,
                    files, log, skipped, uuid, cycle, inputs, touched,
                    startDict, startDisk, startLocked >>
    /\ UNCHANGED << baseline_data, spc, mode, oldTxt, readerSaw, readAt >>
    /\ UNCHANGED << bvars, folder_list, skips, kvars >>

\* the with block ends: the rest reaches the file and the file is closed
SaveClose ==
    /\ spc = "writing"
    /\ baseline_txt' = [baseline_txt EXCEPT !.lines = @ \o unwritten]
    /\ unwritten' = <<>>
    /\ spc' = "done"
    /\ UNCHANGED << disk, locked, dirsOnDisk, file_info_dict, pc, ti, todo,
                    files, log, skipped, uuid, cycle, inputs, touched,
                    startDict, startDisk, startLocked >>
    /\ UNCHANGED << baseline_data, mode, oldTxt, readerSaw, readAt >>
    /\ UNCHANGED << bvars, folder_list, skips, kvars >>

\* another reader opens baseline.txt and loads it, wherever the writer is
ReaderLoads ==
    /\ readAt = "none"
    /\ readAt' = spc
    /\ readerSaw' = baseline_txt
    /\ file_info_dict' = IF baseline_txt.exists
                         THEN LoadLines(baseline_txt.lines, <<>>)
                         ELSE <<>>
    /\ UNCHANGED << disk, locked, dirsOnDisk, baseline_txt, pc, ti, todo,
                    files, log, skipped, uuid, cycle, inputs, touched,
                    startDict, startDisk, startLocked >>
    /\ UNCHANGED << baseline_data, unwritten, spc, mode, oldTxt >>
    /\ UNCHANGED << bvars, folder_list, skips, kvars >>

NextSave ==
    \/ SaveErase
    \/ SaveOpen
    \/ SaveFlush
    \/ SaveClose
    \/ ReaderLoads

SpecSave == InitSave /\ [][NextSave]_vars

\* ------------------------------------------- collect_baseline on its own
\* the lists of target folders collect_baseline is looked at with: the one
\* of __main__, a folder listed twice, a folder with one of its own
\* subdirectories, two separate folders, a subdirectory alone
CollectFolderLists ==
    { target_folders,
      << "A", "A" >>,
      << "A", "A/image files" >>,
      << "A", "B/A" >>,
      << "A/sub" >> }

\* the menu is shown; any files on disk, any earlier ledger
InitCollect ==
    /\ \E d \in [Paths -> 0..MaxContent], txt \in OldLedgers :
          MonitorAt(d, txt, "menu")
    /\ BackupOff
    /\ folder_list \in CollectFolderLists
    /\ skips = 0
    /\ SaveOff
    /\ ClassifyOff

NextCollect == MenuCollect

SpecCollect == InitCollect /\ [][NextCollect]_vars

\* ------------------------------------------------- the load of baseline.txt
\* number of lines of a ledger that is loaded
MaxLines == 3

\* The lines a ledger may hold: records as the save writes them (two of
\* them for the same path), lines cut short by a crash during a save, an
\* empty line, and lines with more than three fields.
LedgerLines ==
    { FormatLine(<< "A", "a", ".pdf" >>, << "sha512:1" >>, Uuid4(1)),
      FormatLine(<< "A", "a", ".pdf" >>, << "sha512:2" >>, Uuid4(2)),
      FormatLine(<< "A/sub", "$", "b", ".xlsx" >>, << "sha512:1" >>, Uuid4(3)),
      << "A", "a", ".pdf", Sep, "sha512:1", "\n" >>,
      << "A", "a" >>,
      << "\n" >>,
      << "A", "a", ".pdf", Sep, "sha512:1", Sep, "uuid-1", Sep, "extra", "\n" >>,
      FormatLine(<< "A", "x", Sep, "y", ".txt" >>, << "sha512:1" >>, Uuid4(4)) }

Ledgers ==
    { NoFile } \cup
    { [exists |-> TRUE, lines |-> l] :
        l \in UNION { [1..n -> LedgerLines] : n \in 0..MaxLines } }

\* monitor_files is about to read baseline.txt
InitLoad ==
    /\ \E txt \in Ledgers : MonitorAt([p \in Paths |-> 1], txt, "load")
    /\ BackupOff
    /\ CallsOff

NextLoad == LoadBaseline

SpecLoad == InitLoad /\ [][NextLoad]_vars

\* -------------------------------------------- check_file_type on its own
\* the suffixes check_file_type knows, in the spellings a file name may have
SuffixSpellings ==
    { [lower |-> ".xlsx", upper |-> ".XLSX", mixed |-> ".Xlsx"],
      [lower |-> ".jpg",  upper |-> ".JPG",  mixed |-> ".Jpg"],
      [lower |-> ".jpeg", upper |-> ".JPEG", mixed |-> ".Jpeg"],
      [lower |-> ".png",  upper |-> ".PNG",  mixed |-> ".Png"],
      [lower |-> ".gif",  upper |-> ".GIF",  mixed |-> ".Gif"],
      [lower |-> ".docx", upper |-> ".DOCX", mixed |-> ".Docx"],
      [lower |-> ".pdf",  upper |-> ".PDF",  mixed |-> ".Pdf"],
      [lower |-> ".pptx", upper |-> ".PPTX", mixed |-> ".Pptx"] }

\* suffixes it does not know, and a name that ends in no suffix at all
OtherSuffixes == { ".txt", ".TXT", ".bin", "pdf" }

\* the file names check_file_type is called with
CheckedNames ==
    { << d >> \o stem \o << sfx >> :
        d \in {"A", "A/sub"},
        stem \in { << "a" >>, << "$", "b" >>, << "a", ".pdf" >> },
        sfx \in { c.lower : c \in SuffixSpellings } \cup
                { c.upper : c \in SuffixSpellings } \cup
                { c.mixed : c \in SuffixSpellings } \cup OtherSuffixes }

InitClassify ==
    /\ MonitorOff
    /\ BackupOff
    /\ folder_list = target_folders
    /\ skips = 0
    /\ SaveOff
    /\ checked_name \in CheckedNames
    /\ checked_type = "unset"

\* file_type = check_file_type(filename)
Classify ==
    /\ checked_type = "unset"
    /\ checked_type' = check_file_type(checked_name)
    /\ UNCHANGED << mvars, bvars, folder_list, skips, svars, checked_name >>

NextClassify == Classify

SpecClassify == InitClassify /\ [][NextClassify]_vars

\* ===================================================== claims: the scan cycle
\* the events logged for path p in scan cycle c
EventsOf(p, c) == SelectSeq(log, LAMBDA e : e.path = p /\ e.cycle = c)

Codes(evs) == [i \in DOMAIN evs |-> evs[i].code]

\* a scan cycle has run to its end and the loop is back at its sleep
CycleDone == pc = "sleep" /\ cycle >= 1

\* the discovery pass lists directory d: a target folder, or a directory of
\* a listed one whose name is not excluded
RECURSIVE Walked(_)
Walked(d) ==
    \/ \E i \in DOMAIN target_folders : target_folders[i] = d
    \/ \E i \in DOMAIN DirTree :
          /\ DirTree[i].full = d
          /\ DirTree[i].parent # ""
          /\ DirTree[i].name \notin excluded_dirs
          /\ Walked(DirTree[i].parent)

\* p was on disk and readable when the cycle began, no other process touched
\* it during the cycle, and the walk lists its directory
SeenReadable(p) ==
    /\ p \notin touched
    /\ startDisk[p] # 0
    /\ ~startLocked[p]
    /\ Walked(DirOf(p))

\* the event id is used by no other baseline record and no other logged event
FreshId(id, p) ==
    /\ id # <<>>
    /\ \A i \in DOMAIN startDict : startDict[i].event_id # id
    /\ \A i \in DOMAIN file_info_dict :
          file_info_dict[i].key # p => file_info_dict[i].event_id # id
    /\ \A i \in DOMAIN log :
          (log[i].path # p \/ log[i].cycle # cycle) => log[i].id # id

C2_ModifiedOneEvent ==
    CycleDone =>
        \A p \in Paths :
            (/\ SeenReadable(p)
             /\ p \in DictKeys(startDict)
             /\ DictGet(startDict, p).hash # calculate_file_hash(p)) =>
                /\ Codes(EventsOf(p, cycle)) = <<103>>
                /\ p \in DictKeys(file_info_dict)
                /\ DictGet(file_info_dict, p).hash = calculate_file_hash(p)
                /\ FreshId(DictGet(file_info_dict, p).event_id, p)

\* C3: at the end of a scan cycle that follows another, every path that was
\* a key of the baseline map and whose file was gone from disk when the cycle
\* began (and was not put back during it) has exactly one event of the
\* cycle, a `deleted` (102) event, and is no longer a key of the baseline map.
C3_DeletedOneEvent ==
    CycleDone =>
        \A p \in Paths :
            (/\ cycle >= 2
             /\ p \notin touched
             /\ startDisk[p] = 0
             /\ p \in DictKeys(startDict)) =>
                /\ Codes(EventsOf(p, cycle)) = <<102>>
                /\ p \notin DictKeys(file_info_dict)

\* C4: at the end of a scan cycle, every path of the baseline map whose file
\* was on disk through the cycle with content whose fingerprint is the stored
\* one has no event of the cycle, and its record (fingerprint, event id) is
\* the one it had when the cycle began.
C4_UnchangedNoEvent ==
    CycleDone =>
        \A p \in Paths :
            (/\ p \notin touched
             /\ startDisk[p] # 0
             /\ p \in DictKeys(startDict)
             /\ DictGet(startDict, p).hash = calculate_file_hash(p)) =>
                /\ EventsOf(p, cycle) = <<>>
                /\ p \in DictKeys(file_info_dict)
                /\ DictGet(file_info_dict, p) = DictGet(startDict, p)

C4_Witness ==
    /\ CycleDone
    /\ cycle = 2
    /\ \E p \in Paths :
          /\ SeenReadable(p)
          /\ p \in DictKeys(startDict)
          /\ DictGet(startDict, p).hash = calculate_file_hash(p)
          /\ Codes(EventsOf(p, 1)) = <<101>>
          /\ EventsOf(p, 2) = <<>>

\* the (path, fingerprint, event id) triples a dict describes
Records(d) == {<< d[i].key, d[i].hash, d[i].event_id >> : i \in DOMAIN d}

\* C5: at the end of every scan cycle baseline.txt exists and describes the
\* same paths, fingerprints and event ids as the in-memory baseline map.
C5_LedgerMatchesMap ==
    CycleDone =>
        /\ baseline_txt.exists
        /\ Records(LoadLines(baseline_txt.lines, <<>>)) = Records(file_info_dict)

\* a step of the discovery loop on the file at the head of the listing
FileStep == << pc, files >>' # << pc, files >>

\* the file of the listing cannot be read where the code reads it outside
\* the lock check: it is gone at the open, or gone or held at the read
ReadFails ==
    \/ pc = "open" /\ ~Exists(Head(files))
    \/ pc = "hash" /\ ~Readable(Head(files))

\* C9: when a listed file has disappeared at the open, or has disappeared or
\* become unreadable at the fingerprint read, the discovery loop skips it:
\* it goes on with the rest of the listing, logs no event and leaves the
\* baseline map alone; the monitor never stops.
C9_LoopSurvivesFileFailure ==
    [][(ReadFails /\ FileStep) =>
          /\ pc' \in {"open", "delete"}
          /\ files' = Tail(files)
          /\ log' = log
          /\ file_info_dict' = file_info_dict]_vars

\* the open of the lock check fails with PermissionError
LockCheckFails == pc = "open" /\ Exists(Head(files)) /\ locked[Head(files)]

\* C10: a file whose open fails on another process's lock is skipped: the
\* step logs no event, leaves the baseline map alone and goes on with the
\* listing, so the loop reaches the next cycle, which lists the path again;
\* and a file held through a whole cycle has no event of that cycle and the
\* baseline record (or absence of one) it had when the cycle began.
C10_LockedFileSkipped ==
    /\ [](CycleDone =>
            \A p \in Paths :
                (p \notin touched /\ startDisk[p] # 0 /\ startLocked[p]) =>
                    /\ EventsOf(p, cycle) = <<>>
                    /\ (p \in DictKeys(file_info_dict)) = (p \in DictKeys(startDict))
                    /\ p \in DictKeys(startDict) =>
                          DictGet(file_info_dict, p) = DictGet(startDict, p))
    /\ [][(LockCheckFails /\ FileStep) =>
             /\ pc' \in {"open", "delete"}
             /\ files' = Tail(files)
             /\ log' = log
             /\ file_info_dict' = file_info_dict
             /\ baseline_txt' = baseline_txt]_vars

\* a file skipped on a lock in cycle 1 is examined in cycle 2 and reported new
C10_Witness ==
    /\ CycleDone
    /\ cycle = 2
    /\ \E p \in Paths :
          /\ << p, 1 >> \in skipped
          /\ EventsOf(p, 1) = <<>>
          /\ Codes(EventsOf(p, 2)) = <<101>>

\* ================================================== claims: backup rotation
Min(a, b) == IF a <= b THEN a ELSE b

Names(backups) == {a.name : a \in backups}

\* C6: after one call of delete_old_backups on a backup location holding N
\* entries with distinct creation times, exactly min(N, 2) entries remain,
\* and they are the most recently created ones.
C6_PruneKeepsTwoNewest ==
    before.called =>
        /\ Cardinality(archives) = Min(Cardinality(before.archives), 2)
        /\ archives \subseteq before.archives
        /\ \A a \in archives, b \in before.archives \ archives :
              a.ctime > b.ctime

\* no backup cycle is running, and every cycle so far ran alone, created
\* its archive (a timestamp of its own) and copied every target folder
AllCyclesSucceeded ==
    /\ \A t \in Threads : ~InBackup(t)
    /\ ~overlapped
    /\ errors = 0
    /\ started = completed

\* C7: starting from an empty backup location, after k backup cycles that
\* ran one after the other, each with a timestamp of its own and without a
\* failure, exactly min(k, 2) archives exist: the most recently created
\* ones, each holding every target folder.
C7_SequentialBackupsKeepTwo ==
    AllCyclesSucceeded =>
        /\ Cardinality(archives) = Min(completed, 2)
        /\ \A a \in archives :
              /\ a.ctime > created - 2
              /\ Len(a.folders) = Len(folder_list)

C7_Witness ==
    /\ AllCyclesSucceeded
    /\ completed = 3
    /\ Cardinality(archives) = 2

\* thread t has created the archive of this name and has not yet copied
\* every target folder into it
CopyInProgress(name) ==
    \E t \in Threads :
        /\ tpc[t] = "copy"
        /\ tidx[t] <= Len(folder_list)
        /\ tts[t] = name

\* C8: no step removes from the backup location an archive whose copy loop
\* has started and not yet completed.
C8_PruneSparesArchiveBeingWritten ==
    [][\A name \in Names(archives) \ Names(archives') :
          ~CopyInProgress(name)]_vars

\* thread t's copy of a target folder fails in this step: the copy loop was
\* not over and the thread leaves it
CopyFails(t) ==
    /\ tpc[t] = "copy"
    /\ tidx[t] <= Len(folder_list)
    /\ tpc'[t] # "copy"

\* C11: whenever the copy of a target folder fails during a backup cycle,
\* whatever the cause (a destination that is already there included), the
\* failure is logged, the cycle ends without the retention prune and without
\* the completion message, the backup location keeps the partial archive,
\* and the thread returns to its scheduler.
C11_CopyFailureLoggedAndAbandoned ==
    [][\A t \in Threads :
          CopyFails(t) =>
              /\ errors' = errors + 1
              /\ completed' = completed
              /\ archives' = archives
              /\ tret[t] \in {"spawn", "ran"}
              /\ tpc'[t] = tret[t]]_vars

\* thread t's backup_and_manage is about to compute an archive name that is
\* already in the backup location
NameTaken(t) == tpc[t] = "call" /\ ArchiveExists(now)

\* C12: a backup cycle whose archive name already exists in the backup
\* location creates no directory, copies nothing, does not prune, prints no
\* completion message and logs no error: it returns with the backup
\* location as it was.
C12_TakenNameSkipsCycle ==
    [][\A t \in Threads :
          (NameTaken(t) /\ tpc'[t] # tpc[t]) =>
              /\ archives' = archives
              /\ created' = created
              /\ completed' = completed
              /\ errors' = errors
              /\ tpc'[t] = tret[t]]_vars

\* a cycle found its name taken and returned; no cycle is running
C12_Witness ==
    /\ skips >= 1
    /\ errors = 0
    /\ \A t \in Threads : ~InBackup(t)
    /\ Cardinality(archives) >= 1

\* ======================================================= claims: the ledger
\* baseline.txt as the save leaves it when it is over
NewTxt == [exists |-> TRUE, lines |-> SaveLines(baseline_data)]

\* C13: a reader that opens baseline.txt while it is being saved finds the
\* complete old content or the complete new content, never a missing, empty
\* or partly written file.
C13_ReaderSeesOldOrNew ==
    readAt \notin {"off", "none"} => readerSaw \in {oldTxt, NewTxt}

\* C14: saving a set of records one line per record as
\* path|fingerprint|event_id and loading the file back gives exactly the
\* records that were saved, also when a path has the character "|" in it.
C14_LedgerRoundTrip ==
    readAt = "done" => Records(file_info_dict) = Records(baseline_data)

\* the fields of a ledger line
Fields(line) == Split(Strip(line))

\* the files collect_baseline is to record: on disk under one of the target
\* folders, with a name that does not begin with "$" or "~$"
ToRecord ==
    { p \in Paths :
        /\ Exists(p)
        /\ ~Skipped(p)
        /\ \E i \in DOMAIN folder_list : Under(DirOf(p), folder_list[i]) }

\* C15: after collect_baseline, whatever the ledger held before and whatever
\* the list of target folders (folders that repeat or lie in one another
\* included), baseline.txt has exactly one line for each file to record,
\* with the fingerprint of the file's content, and no other line.
C15_CollectOneRecordPerFile ==
    (pc = "menu" /\ inputs >= 1) =>
        LET lines == baseline_txt.lines
        IN  /\ baseline_txt.exists
            /\ \A p \in ToRecord :
                  /\ Cardinality({i \in DOMAIN lines : Fields(lines[i])[1] = p}) = 1
                  /\ \A i \in DOMAIN lines :
                        Fields(lines[i])[1] = p =>
                            Fields(lines[i])[2] = calculate_file_hash(p)
            /\ \A i \in DOMAIN lines : Fields(lines[i])[1] \in ToRecord

\* monitor_files has read baseline.txt and no scan cycle has changed the map
Loaded == pc = "sleep" /\ cycle = 0 /\ baseline_txt.exists

\* line i of the ledger is the last one with at least three fields that
\* names its path
LastFor(lines, i) ==
    \A j \in DOMAIN lines :
        (j > i /\ Len(Fields(lines[j])) >= 3) =>
            Fields(lines[j])[1] # Fields(lines[i])[1]

\* the map holds the record that the first three fields of line f state
Accepted(f) ==
    /\ f[1] \in DictKeys(file_info_dict)
    /\ DictGet(file_info_dict, f[1]).hash = f[2]
    /\ DictGet(file_info_dict, f[1]).event_id = f[3]

\* C16: when the ledger is loaded, a line with fewer than three fields is
\* skipped and the load goes on: every line of exactly three fields, before
\* or after it, is loaded into the map (the last line for a path decides),
\* and no key of the map comes from a line with fewer than three fields.
C16_ShortLinesSkipped ==
    Loaded =>
        LET lines == baseline_txt.lines
        IN  (\E s \in DOMAIN lines : Len(Fields(lines[s])) < 3) =>
                /\ \A i \in DOMAIN lines :
                      (Len(Fields(lines[i])) = 3 /\ LastFor(lines, i)) =>
                          Accepted(Fields(lines[i]))
                /\ \A k \in DictKeys(file_info_dict) :
                      \E j \in DOMAIN lines :
                          /\ Len(Fields(lines[j])) >= 3
                          /\ Fields(lines[j])[1] = k

\* a short line stands between two records, and both records are in the map
C16_Witness ==
    /\ Loaded
    /\ LET lines == baseline_txt.lines
       IN  /\ Len(lines) = 3
           /\ Len(Fields(lines[1])) = 3
           /\ Len(Fields(lines[2])) < 3
           /\ Len(Fields(lines[3])) = 3
           /\ Fields(lines[1])[1] # Fields(lines[3])[1]
           /\ Accepted(Fields(lines[1]))
           /\ Accepted(Fields(lines[3]))

\* C17: when the ledger is loaded, a line with more than three fields makes
\* the load fail: no record is built from the first three fields of such a
\* line (a record of the map that such a line states is stated by a line of
\* exactly three fields as well).
C17_LongLineNotAccepted ==
    Loaded =>
        LET lines == baseline_txt.lines
        IN  \A i \in DOMAIN lines :
                (Len(Fields(lines[i])) > 3 /\ Accepted(Fields(lines[i]))) =>
                    \E j \in DOMAIN lines :
                        /\ Len(Fields(lines[j])) = 3
                        /\ Fields(lines[j]) = SubSeq(Fields(lines[i]), 1, 3)

\* ================================================ claims: classification
\* str.lower() of a suffix
LowerSuffix(sfx) ==
    IF \E c \in SuffixSpellings : sfx \in {c.lower, c.upper, c.mixed}
    THEN (CHOOSE c \in SuffixSpellings : sfx \in {c.lower, c.upper, c.mixed}).lower
    ELSE IF sfx = ".TXT" THEN ".txt"
    ELSE sfx

\* the file name with its suffix in lower case
LowerName(name) == [name EXCEPT ![Len(name)] = LowerSuffix(@)]

\* C18: the category check_file_type gives a file name is the category of
\* the name with its suffix in lower case, so that upper, lower and mixed
\* case spellings of a suffix get the same category; and a name whose suffix
\* is not a recognised one gets no category.
C18_ClassifyIgnoresCase ==
    checked_type # "unset" =>
        /\ checked_type = check_file_type(LowerName(checked_name))
        /\ (\A c \in SuffixSpellings :
                LowerSuffix(checked_name[Len(checked_name)]) # c.lower) =>
               checked_type = "none"

\* ============================================ claims: fingerprints, ordering
\* h is a value of the 512-bit fingerprint function
IsSha512(h) == \E c \in 1..MaxContent : h = << "sha512:" \o ToString(c) >>

\* C19: every fingerprint of a baseline record, in the in-memory map and in
\* baseline.txt, is a value of the one 512-bit fingerprint function, whatever
\* the category of the file, so that the comparison made after the ledger is
\* loaded again is between fingerprints of the same function.
C19_OneFingerprintFunction ==
    /\ \A i \in DOMAIN file_info_dict : IsSha512(file_info_dict[i].hash)
    /\ \A i \in DOMAIN baseline_txt.lines :
          Len(Fields(baseline_txt.lines[i])) >= 3 =>
              IsSha512(Fields(baseline_txt.lines[i])[2])

\* C20: within one scan cycle every new (101) and modified (103) event comes
\* before every deleted (102) event: no deleted event is logged while the
\* discovery pass still has directories to list.
C20_DeletedAfterDiscovery ==
    \A i, j \in DOMAIN log :
        (i < j /\ log[i].cycle = log[j].cycle /\ log[i].code = 102) =>
            log[j].code \notin {101, 103}

\* ===================================================== claims: path identity
\* C21: in every state of monitor_files each record of the baseline map has
\* a path field equal to the key it is stored under, so the rename branch
\* is never taken and no renamed (104) event is ever logged.
C21_PathFieldIsKey ==
    /\ \A i \in DOMAIN file_info_dict :
          file_info_dict[i].path = file_info_dict[i].key
    /\ \A i \in DOMAIN log : log[i].code # 104

\* the rename test was made in the second cycle on a record of the first
\* cycle and on a record that a modification had rewritten, and no renamed
\* event was logged
C21_Witness ==
    /\ CycleDone
    /\ cycle = 2
    /\ \E p \in Paths :
          /\ SeenReadable(p)
          /\ p \in DictKeys(startDict)
          /\ ~HashDiffers(p)
          /\ DictGet(file_info_dict, p).path = p
    /\ \E i \in DOMAIN log : log[i].code \in {100, 103}
    /\ \A i \in DOMAIN log : log[i].code # 104

\* ============================================== claims: one cycle at a time
\* C22: at most one execution of backup_and_manage is in progress at any
\* time, although the backup thread and the main thread both call
\* schedule.run_pending on the same scheduler.
C22_OneBackupCycleAtATime ==
    \A t, u \in Threads : (InBackup(t) /\ InBackup(u)) => t = u

\* ================================================ claims: handler event ids
\* the records of baseline.txt as a load reads them
LedgerRecords(txt) == LoadLines(txt.lines, <<>>)

\* a category handler rewrites baseline.txt in this step for the modified
\* file at the head of the listing
HandlerRewrites ==
    /\ pc = "hash"
    /\ baseline_txt' # baseline_txt

\* C23: when a category handler rewrites the ledger for a modified file, the
\* record written for the file carries the event id the caller passed in
\* (the one generated for this event), and afterwards no two paths of the
\* ledger have the same event id.
C23_HandlerWritesCallersEventId ==
    [][HandlerRewrites =>
          LET full_path == Head(files)
              event_id == Uuid4(uuid + 1)
              written == LedgerRecords(baseline_txt')
          IN  /\ full_path \in DictKeys(written)
              /\ DictGet(written, full_path).event_id = event_id
              /\ \A i, j \in DOMAIN written :
                    written[i].event_id = written[j].event_id => i = j]_vars

\* ========================================= claims: rebuild, then monitoring
\* collect_baseline has run once and no other process has changed a file
\* since the program started
CollectedAndUntouched == baseline_txt.exists /\ inputs = 1

\* C24: when collect_baseline has run and monitoring runs from the saved
\* ledger while nothing on disk changes, no scan cycle logs an event (files
\* with names beginning with "$" or "~$" and files under excluded
\* directories included).
C24_CollectThenMonitorIsQuiet ==
    CollectedAndUntouched => log = <<>>
=============================================================================
